---- MODULE Spec2Model ----
(***************************************************************************)
(* Model of filter.py, the Streamlit "Excel Multi-Sheet Data Viewer".      *)
(*                                                                         *)
(* The script is re-executed from top to bottom on every user action; the  *)
(* only state that survives a run is st.session_state (the Sheet Store)   *)
(* and the values held by the widgets.  Each action below is one user      *)
(* action followed by the whole script run it triggers.                    *)
(*                                                                         *)
(* Cell values are modelled as small naturals of one comparable type, with *)
(* NULL standing for NaN/None.  Workbooks are drawn from a fixed catalogue.*)
(* The uploader accepts only .xlsx and .xls, so the unsupported-format      *)
(* branch (lines 23-25) is never taken; the engine chosen at lines 19-22    *)
(* does not enter the state.                                                *)
(***************************************************************************)
EXTENDS Integers, Sequences, FiniteSets, TLC

VARIABLES
    uploaded_file,     \* value of st.file_uploader: None or a workbook name
    session_state,     \* st.session_state: a mapping with at most the key "dataframes"
    rerun_requested,   \* st.rerun() was called; the script is about to run again
    sel_options,       \* options of the sheet multiselect at the last run (<<>>: not rendered)
    selected_sheets,   \* value of the sheet multiselect
    is_exclude_mode,   \* value of the filter-mode radio
    options,           \* per filter column: options of its multiselect (<<>>: not offered)
    filters,           \* per filter column: selected values of its multiselect
    status,            \* which branch the last run ended in ("rerun": in st.rerun())
    sheet_warnings,    \* sheets named by "Sheet ... not found" warnings in the last run
    no_filter_warning, \* the "None of the expected filter columns" warning was shown
    rendered,          \* sheets displayed by the last run, in display order
    populated,         \* history: the last run executed the store-population block
    store_file,        \* history: the workbook the store was last populated from
    request,           \* history: the user action that triggered the last run
    probe              \* input/output of a stand-alone application of the filter loop

vars == <<uploaded_file, session_state, rerun_requested, sel_options, selected_sheets,
          is_exclude_mode, options, filters, status, sheet_warnings,
          no_filter_warning, rendered, populated, store_file, request, probe>>

session_vars == <<uploaded_file, session_state, rerun_requested, sel_options,
                  selected_sheets, is_exclude_mode, options, filters, status,
                  sheet_warnings, no_filter_warning, rendered, populated,
                  store_file, request>>

----------------------------------------------------------------------------
(* Program constants *)

expected_sheets ==
    << "Region", "Issuer", "Merchant", "Acquirer", "Issuer-Merchant",
       "Issuer-Acquirer", "Acquirer-Merchant", "Issuer-Acquirer-Merchant" >>

filter_columns ==
    << "Issuer region name", "Issuer country", "Product Category",
       "Issuer", "Merchant", "Acquirer" >>

None == "None"

\* NaN / None cell, the value dropna() removes and isin() never matches
NULL == 0

Range(s) == { s[i] : i \in DOMAIN s }

----------------------------------------------------------------------------
(* Bounds of the stand-alone filter check *)

\* rows of a table handed to the stand-alone filter loop
MaxRows == 2

\* repeated entries added to a sheet selection when its order is varied
MaxDup == 1

\* non-null cell values of the tables handed to the stand-alone filter loop
Values == {1, 2}

----------------------------------------------------------------------------
(* The workbooks a user may upload *)

DataFrame(cols, rws) == [columns |-> cols, rows |-> rws]

RegionDf ==
    DataFrame({"Issuer region name", "Amount"},
      << ("Issuer region name" :> 3    @@ "Amount" :> 1),
         ("Issuer region name" :> NULL @@ "Amount" :> 2),
         ("Issuer region name" :> 1    @@ "Amount" :> 3) >>)

IssuerDf ==
    DataFrame({"Issuer region name", "Issuer"},
      << ("Issuer region name" :> 2    @@ "Issuer" :> 1),
         ("Issuer region name" :> 1    @@ "Issuer" :> NULL),
         ("Issuer region name" :> NULL @@ "Issuer" :> 1),
         ("Issuer region name" :> 2    @@ "Issuer" :> NULL) >>)

AcquirerPlainDf ==
    DataFrame({"Amount"}, << ("Amount" :> 5), ("Amount" :> 6) >>)

MerchantNullDf ==
    DataFrame({"Product Category", "Amount"},
      << ("Product Category" :> NULL @@ "Amount" :> 7),
         ("Product Category" :> NULL @@ "Amount" :> 8) >>)

NotesDf ==
    DataFrame({"Text"}, << ("Text" :> 1) >>)

\* name |-> [ok: ExcelFile() opens it, sheet_names, unreadable: sheets whose
\*           read_excel raises, sheets: contents]
Catalogue ==
    ( "full.xlsx" :>
        [ ok |-> TRUE, sheet_names |-> <<"Issuer", "Notes", "Region">>,
          unreadable |-> {},
          sheets |-> ("Issuer" :> IssuerDf @@ "Notes" :> NotesDf @@
                      "Region" :> RegionDf) ] )
 @@ ( "partial.xls" :>
        [ ok |-> TRUE, sheet_names |-> <<"Acquirer", "Merchant">>,
          unreadable |-> {},
          sheets |-> ("Acquirer" :> AcquirerPlainDf @@ "Merchant" :> MerchantNullDf) ] )
 @@ ( "foreign.xlsx" :>
        [ ok |-> TRUE, sheet_names |-> <<"Notes">>,
          unreadable |-> {},
          sheets |-> ("Notes" :> NotesDf) ] )
 @@ ( "damaged.xlsx" :>
        [ ok |-> TRUE, sheet_names |-> <<"Region", "Issuer">>,
          unreadable |-> {"Issuer"},
          sheets |-> ("Region" :> RegionDf @@ "Issuer" :> IssuerDf) ] )
 @@ ( "unreadable.xlsx" :>
        [ ok |-> TRUE, sheet_names |-> <<"Issuer">>,
          unreadable |-> {"Issuer"},
          sheets |-> ("Issuer" :> IssuerDf) ] )
 @@ ( "notzip.xlsx" :>
        [ ok |-> FALSE, sheet_names |-> << >>, unreadable |-> {},
          sheets |-> ("Notes" :> NotesDf) ] )

Workbooks == DOMAIN Catalogue

\* pd.ExcelFile(uploaded_file, engine=engine) succeeds
ExcelFileOpens(file) == Catalogue[file].ok

sheet_names(file) == Range(Catalogue[file].sheet_names)

\* pd.read_excel(uploaded_file, sheet_name=sheet, engine=engine) raises
ReadRaises(file, sheet) == sheet \in Catalogue[file].unreadable

read_excel(file, sheet) == Catalogue[file].sheets[sheet]

----------------------------------------------------------------------------
(* st.session_state and the dict st.session_state.dataframes.  A dict is a *)
(* sequence of items in insertion order.                                   *)

EmptyState == [k \in {} |-> << >>]

HasDataframes(ss) == "dataframes" \in DOMAIN ss

Keys(d) == [i \in 1..Len(d) |-> d[i].key]

Get(d, k) == (CHOOSE item \in Range(d) : item.key = k).value

\* ReadSheets leaving the loop at the first expected sheet the workbook lacks
RECURSIVE ReadSheetsUntilMissing(_, _, _)
ReadSheetsUntilMissing(file, i, acc) ==
    IF i > Len(expected_sheets) THEN acc
    ELSE LET sheet == expected_sheets[i] IN
         IF sheet \in sheet_names(file)
         THEN IF ReadRaises(file, sheet)
              THEN [acc EXCEPT !.raised = TRUE]
              ELSE ReadSheetsUntilMissing(file, i + 1,
                     [acc EXCEPT !.dataframes =
                         Append(@, [key |-> sheet, value |-> read_excel(file, sheet)])])
         ELSE [acc EXCEPT !.warnings = Append(@, sheet)]

\* The block under `if 'dataframes' not in st.session_state`, from sheet i on.
\* acc.raised records that read_excel raised and the loop was left.
RECURSIVE ReadSheets(_, _, _)
ReadSheets(file, i, acc) ==
    IF i > Len(expected_sheets) THEN acc
    ELSE LET sheet == expected_sheets[i] IN
         IF sheet \in sheet_names(file)
         THEN IF ReadRaises(file, sheet)
              THEN [acc EXCEPT !.raised = TRUE]
              ELSE ReadSheets(file, i + 1,
                     [acc EXCEPT !.dataframes =
                         Append(@, [key |-> sheet, value |-> read_excel(file, sheet)])])
         ELSE ReadSheets(file, i + 1, [acc EXCEPT !.warnings = Append(@, sheet)])

PopulateStore(file) ==
    ReadSheets(file, 1, [dataframes |-> << >>, warnings |-> << >>, raised |-> FALSE])

----------------------------------------------------------------------------
(* pandas / builtins used by the filter engine *)

\* df[col]
Series(df, col) == [i \in 1..Len(df.rows) |-> df.rows[i][col]]

NotNull(v) == v # NULL

\* series.dropna()
dropna(series) == SelectSeq(series, NotNull)

\* series.unique(), as the set that set.update() adds
unique(series) == Range(series)

\* series.isin(values): a boolean mask of membership
isin(series, values) == [i \in DOMAIN series |-> series[i] \in values]

\* ~mask
Invert(mask) == [i \in DOMAIN mask |-> ~mask[i]]

\* df[mask]: the rows whose mask entry is True, in their order in df
BoolIndex(df, mask) ==
    LET Kept[i \in 0..Len(df.rows)] ==
            IF i = 0 THEN << >>
            ELSE IF mask[i] THEN Append(Kept[i - 1], df.rows[i]) ELSE Kept[i - 1]
    IN  [df EXCEPT !.rows = Kept[Len(df.rows)]]

\* sorted(list(unique_values))
RECURSIVE sorted(_)
sorted(S) ==
    IF S = {} THEN << >>
    ELSE LET least == CHOOSE x \in S : \A y \in S : x <= y
         IN  <<least>> \o sorted(S \ {least})

----------------------------------------------------------------------------
(* Candidate-value aggregation, lines 123-140 *)

\* CollectUnique assigning each sheet's values instead of adding them
RECURSIVE CollectUniqueOverwriting(_, _, _, _, _)
CollectUniqueOverwriting(dataframes, selected, filter_col, i, unique_values) ==
    IF i > Len(selected) THEN unique_values
    ELSE LET df == Get(dataframes, selected[i]) IN
         CollectUniqueOverwriting(dataframes, selected, filter_col, i + 1,
            IF filter_col \in df.columns
            THEN unique(dropna(Series(df, filter_col)))
            ELSE unique_values)

\* the inner loop `for sheet in selected_sheets`, from position i on
RECURSIVE CollectUnique(_, _, _, _, _)
CollectUnique(dataframes, selected, filter_col, i, unique_values) ==
    IF i > Len(selected) THEN unique_values
    ELSE LET df == Get(dataframes, selected[i]) IN
         CollectUnique(dataframes, selected, filter_col, i + 1,
            IF filter_col \in df.columns
            THEN unique_values \cup unique(dropna(Series(df, filter_col)))
            ELSE unique_values)

UniqueValues(dataframes, selected, filter_col) ==
    CollectUnique(dataframes, selected, filter_col, 1, {})

NoOptions == [c \in Range(filter_columns) |-> << >>]

\* value of a dict-like sequence of items at key k, or dflt when k is no key
GetOr(d, k, dflt) == IF k \in Range(Keys(d)) THEN Get(d, k) ELSE dflt

\* st.multiselect(..., options=opts, default=dflt): the widget keeps its value
\* from the previous run while it is rendered with the same options
MultiselectValue(prev_options, prev_value, opts, dflt) ==
    IF prev_options = opts THEN prev_value ELSE dflt

\* the outer loop `for idx, filter_col in enumerate(filter_columns)`, from idx on;
\* acc.options are the widgets rendered, acc.filters is the dict `filters`
RECURSIVE BuildFilters(_, _, _, _, _)
BuildFilters(dataframes, selected, prev, idx, acc) ==
    IF idx > Len(filter_columns) THEN acc
    ELSE LET filter_col == filter_columns[idx]
             unique_values == UniqueValues(dataframes, selected, filter_col)
         IN  IF unique_values # {}
             THEN LET opts == sorted(unique_values)
                      value == MultiselectValue(prev.options[filter_col],
                                   GetOr(prev.filters, filter_col, {}), opts, {})
                  IN  BuildFilters(dataframes, selected, prev, idx + 1,
                        [options |-> [acc.options EXCEPT ![filter_col] = opts],
                         filters |-> Append(acc.filters,
                                       [key |-> filter_col, value |-> value])])
             ELSE BuildFilters(dataframes, selected, prev, idx + 1, acc)

----------------------------------------------------------------------------
(* Row predicate application, lines 149-157 *)

\* FilterActive without the test that some value is selected
FilterActiveIgnoringEmpty(selected_values, filter_col, columns) ==
    filter_col \in columns

\* line 151: `if selected_values and filter_col in filtered_df.columns`
FilterActive(selected_values, filter_col, columns) ==
    selected_values # {} /\ filter_col \in columns

\* FilterMask whose exclude branch also drops the rows with a null cell
FilterMaskDroppingNull(filtered_df, filter_col, selected_values, exclude) ==
    LET series == Series(filtered_df, filter_col) IN
    IF exclude
    THEN [i \in DOMAIN series |-> NotNull(series[i]) /\ series[i] \notin selected_values]
    ELSE isin(series, selected_values)

\* lines 152-157: the mask applied for one active filter column
FilterMask(filtered_df, filter_col, selected_values, exclude) ==
    IF exclude
    THEN Invert(isin(Series(filtered_df, filter_col), selected_values))
    ELSE isin(Series(filtered_df, filter_col), selected_values)

\* one iteration of `for filter_col, selected_values in filters.items()`
FilterStep(filtered_df, filter_col, selected_values, exclude) ==
    IF FilterActive(selected_values, filter_col, filtered_df.columns)
    THEN BoolIndex(filtered_df,
                   FilterMask(filtered_df, filter_col, selected_values, exclude))
    ELSE filtered_df

RECURSIVE FilterLoop(_, _, _, _)
FilterLoop(filtered_df, items, i, exclude) ==
    IF i > Len(items) THEN filtered_df
    ELSE FilterLoop(FilterStep(filtered_df, items[i].key, items[i].value, exclude),
                    items, i + 1, exclude)

\* the loop with every mask taken over df instead of filtered_df, so that each
\* active column replaces the result of the columns before it
RECURSIVE FilterLoopFromSource(_, _, _, _, _)
FilterLoopFromSource(df, filtered_df, items, i, exclude) ==
    IF i > Len(items) THEN filtered_df
    ELSE FilterLoopFromSource(df,
            IF FilterActive(items[i].value, items[i].key, df.columns)
            THEN FilterStep(df, items[i].key, items[i].value, exclude)
            ELSE filtered_df,
            items, i + 1, exclude)

ApplyFiltersFromSource(df, items, exclude) ==
    FilterLoopFromSource(df, df, items, 1, exclude)

\* filtered_df after the loop, starting from filtered_df = df.copy()
ApplyFilters(df, items, exclude) == FilterLoop(df, items, 1, exclude)

\* DisplaySheets walking the store's keys instead of the selection
DisplaySheetsInStoreOrder(dataframes, selected, items, exclude) ==
    LET ordered == SelectSeq(Keys(dataframes), LAMBDA k : k \in Range(selected)) IN
    [i \in 1..Len(ordered) |->
        [sheet_name  |-> ordered[i],
         df          |-> Get(dataframes, ordered[i]),
         filtered_df |-> ApplyFilters(Get(dataframes, ordered[i]), items, exclude)]]

\* the display loop `for sheet_name in selected_sheets`, lines 145-184
DisplaySheets(dataframes, selected, items, exclude) ==
    [i \in 1..Len(selected) |->
        [sheet_name  |-> selected[i],
         df          |-> Get(dataframes, selected[i]),
         filtered_df |-> ApplyFilters(Get(dataframes, selected[i]), items, exclude)]]

\* AvailableFilterColumns counting only the columns that have a value to offer
AvailableFilterColumnsWithValues(dataframes, selected) ==
    SelectSeq(filter_columns, LAMBDA col : UniqueValues(dataframes, selected, col) # {})

\* lines 106-111: the filter columns that exist in some selected sheet
AvailableFilterColumns(dataframes, selected) ==
    LET all_columns == UNION { Get(dataframes, selected[i]).columns : i \in 1..Len(selected) }
    IN  SelectSeq(filter_columns, LAMBDA col : col \in all_columns)

----------------------------------------------------------------------------
(* One execution of the script body, lines 12-223 *)

\* what a run leaves when it renders no widget and displays nothing
Blank(ss, st) ==
    [session_state |-> ss, sel_options |-> << >>, selected_sheets |-> << >>,
     is_exclude_mode |-> FALSE, options |-> NoOptions, filters |-> << >>,
     status |-> st, sheet_warnings |-> << >>, no_filter_warning |-> FALSE,
     rendered |-> << >>, populated |-> FALSE]

\* lines 46-53: the store after the population block, and what the block reported
LoadStore(file, ss) ==
    IF HasDataframes(ss)
    THEN [dataframes |-> ss.dataframes, warnings |-> << >>, raised |-> FALSE,
          populated |-> FALSE]
    ELSE LET r == PopulateStore(file)
         IN  [dataframes |-> r.dataframes, warnings |-> r.warnings, raised |-> r.raised,
              populated |-> TRUE]

\* lines 55-188, entered with the store `dataframes`; w is the widget state
\* left by the previous run
ShowSheets(dataframes, w) ==
    IF dataframes = << >> THEN Blank([dataframes |-> dataframes], "no_valid_sheets")
    ELSE
    LET available_sheets == Keys(dataframes)
        selected == MultiselectValue(w.sel_options, w.selected_sheets,
                                     available_sheets, SubSeq(available_sheets, 1, 1))
    IN  IF selected = << >>
        THEN [Blank([dataframes |-> dataframes], "select_prompt")
                 EXCEPT !.sel_options = available_sheets]
        ELSE
        LET exclude == w.is_exclude_mode
            built == BuildFilters(dataframes, selected, w, 1,
                                  [options |-> NoOptions, filters |-> << >>])
        IN  [session_state |-> [dataframes |-> dataframes],
             sel_options |-> available_sheets,
             selected_sheets |-> selected,
             is_exclude_mode |-> exclude,
             options |-> built.options,
             filters |-> built.filters,
             status |-> "displayed",
             sheet_warnings |-> << >>,
             no_filter_warning |-> (AvailableFilterColumns(dataframes, selected) = << >>),
             rendered |-> DisplaySheets(dataframes, selected, built.filters, exclude),
             populated |-> FALSE]

RunScript(file, ss, w) ==
    IF file = None THEN Blank(ss, "upload_prompt")
    ELSE IF ~ExcelFileOpens(file) THEN Blank(ss, "read_error")
    ELSE LET load == LoadStore(file, ss) IN
         IF load.raised
         THEN [Blank([dataframes |-> load.dataframes], "read_error")
                  EXCEPT !.sheet_warnings = load.warnings, !.populated = TRUE]
         ELSE [ShowSheets(load.dataframes, w)
                  EXCEPT !.sheet_warnings = load.warnings, !.populated = load.populated]

----------------------------------------------------------------------------
(* The session: user actions, each followed by the run it triggers *)

NoProbe ==
    [df |-> DataFrame({}, << >>), filters |-> << >>, is_exclude_mode |-> FALSE,
     filtered_df |-> DataFrame({}, << >>), applied |-> FALSE]

\* the widget state a run starts from
Widgets ==
    [sel_options |-> sel_options, selected_sheets |-> selected_sheets,
     is_exclude_mode |-> is_exclude_mode, options |-> options, filters |-> filters]

\* the ordered selections a multiselect over the options opts can hold
OrderedSelections(opts) ==
    UNION { { s \in [1..n -> Range(opts)] : \A i, j \in 1..n : s[i] = s[j] => i = j }
            : n \in 0..Len(opts) }

SetItem(d, k, v) == [i \in 1..Len(d) |-> IF d[i].key = k THEN [key |-> k, value |-> v] ELSE d[i]]

ClearItems(d) == [i \in 1..Len(d) |-> [key |-> d[i].key, value |-> {}]]

\* widget values and output of a run, from the record r that RunScript returns
Widgeted(r) ==
    /\ sel_options' = r.sel_options
    /\ selected_sheets' = r.selected_sheets
    /\ is_exclude_mode' = r.is_exclude_mode
    /\ options' = r.options
    /\ filters' = r.filters
    /\ sheet_warnings' = r.sheet_warnings
    /\ no_filter_warning' = r.no_filter_warning
    /\ rendered' = r.rendered
    /\ populated' = r.populated

\* the variables a run that reaches its end assigns
Shown(r) ==
    /\ status' = r.status
    /\ Widgeted(r)

\* a complete run for the uploaded file `file` from widget state w; the
\* Reset All button at line 256 returns False
Run(file, w, req) ==
    LET r == RunScript(file, session_state, w) IN
    /\ uploaded_file' = file
    /\ session_state' = r.session_state
    /\ Shown(r)
    /\ store_file' = IF r.populated THEN file ELSE store_file
    /\ request' = req
    /\ rerun_requested' = FALSE
    /\ UNCHANGED probe

Upload(file) ==
    /\ ~rerun_requested
    /\ file # uploaded_file
    /\ Run(file, Widgets, [op |-> "Upload", arg |-> file])

RemoveFile ==
    /\ ~rerun_requested
    /\ uploaded_file # None
    /\ Run(None, Widgets, [op |-> "RemoveFile", arg |-> None])

SelectSheets(selection) ==
    /\ ~rerun_requested
    /\ sel_options # << >>
    /\ selection # selected_sheets
    /\ Run(uploaded_file, [Widgets EXCEPT !.selected_sheets = selection],
           [op |-> "SelectSheets", arg |-> selection])

\* The label of every filter multiselect names the mode; whether a widget whose
\* label changed keeps its value depends on the Streamlit release (keep).
SetFilterMode(exclude, keep) ==
    /\ ~rerun_requested
    /\ selected_sheets # << >>
    /\ exclude # is_exclude_mode
    /\ Run(uploaded_file,
           [Widgets EXCEPT !.is_exclude_mode = exclude,
                           !.filters = IF keep THEN @ ELSE ClearItems(@)],
           [op |-> "SetFilterMode", arg |-> exclude])

SetFilter(filter_col, selected_values) ==
    /\ ~rerun_requested
    /\ options[filter_col] # << >>
    /\ selected_values # Get(filters, filter_col)
    /\ Run(uploaded_file,
           [Widgets EXCEPT !.filters = SetItem(@, filter_col, selected_values)],
           [op |-> "SetFilter", arg |-> filter_col])

Download(sheet_name) ==
    /\ ~rerun_requested
    /\ Run(uploaded_file, Widgets, [op |-> "Download", arg |-> sheet_name])

\* ResetAll without `del st.session_state.dataframes`
ResetAllKeepingStore ==
    /\ ~rerun_requested
    /\ LET r == RunScript(uploaded_file, session_state, Widgets) IN
       /\ Widgeted(r)
       /\ status' = "rerun"
       /\ session_state' = r.session_state
       /\ rerun_requested' = TRUE
       /\ store_file' = IF r.populated THEN uploaded_file ELSE store_file
    /\ request' = [op |-> "ResetAll", arg |-> None]
    /\ UNCHANGED <<uploaded_file, probe>>

\* lines 256-259: the run in which the Reset All button returns True
ResetAll ==
    /\ ~rerun_requested
    /\ LET r == RunScript(uploaded_file, session_state, Widgets) IN
       /\ Widgeted(r)
       /\ status' = "rerun"
       /\ session_state' = EmptyState
       /\ rerun_requested' = TRUE
       /\ store_file' = None
    /\ request' = [op |-> "ResetAll", arg |-> None]
    /\ UNCHANGED <<uploaded_file, probe>>

\* the run st.rerun() starts
Rerun ==
    /\ rerun_requested
    /\ Run(uploaded_file, Widgets, [op |-> "Rerun", arg |-> None])

Init ==
    /\ uploaded_file = None
    /\ session_state = EmptyState
    /\ rerun_requested = FALSE
    /\ sel_options = << >>
    /\ selected_sheets = << >>
    /\ is_exclude_mode = FALSE
    /\ options = NoOptions
    /\ filters = << >>
    /\ status = "upload_prompt"
    /\ sheet_warnings = << >>
    /\ no_filter_warning = FALSE
    /\ rendered = << >>
    /\ populated = FALSE
    /\ store_file = None
    /\ request = [op |-> "Start", arg |-> None]
    /\ probe = NoProbe

Next ==
    \/ \E file \in Workbooks : Upload(file)
    \/ RemoveFile
    \/ \E selection \in OrderedSelections(sel_options) : SelectSheets(selection)
    \/ \E exclude, keep \in BOOLEAN : SetFilterMode(exclude, keep)
    \/ \E filter_col \in Range(filter_columns) :
          \E selected_values \in SUBSET Range(options[filter_col]) :
             SetFilter(filter_col, selected_values)
    \/ \E i \in 1..Len(rendered) : Download(rendered[i].sheet_name)
    \/ ResetAll
    \/ Rerun

Spec == Init /\ [][Next]_vars

----------------------------------------------------------------------------
(* The filter loop on its own: ApplyFilters applied once to a table, a dict *)
(* of selected values (in any key order) and a mode drawn from bounded sets. *)

\* columns of the tables drawn, and a filter column that no drawn table has
ProbeColumns == {"Issuer country", "Issuer"}

AbsentColumn == "Acquirer"

BoundedSeq(S, n) == UNION { [1..k -> S] : k \in 0..n }

ProbeTables ==
    { DataFrame(ProbeColumns, rws) :
        rws \in BoundedSeq([ProbeColumns -> Values \cup {NULL}], MaxRows) }

\* the values a multiselect can return: subsets of its non-null options
ProbeSelections(filter_col) ==
    IF filter_col = AbsentColumn THEN { {}, {1} } ELSE SUBSET Values

ProbeFilters ==
    UNION { { [i \in 1..Len(ks) |-> [key |-> ks[i], value |-> vs[i]]] :
                vs \in { f \in [1..Len(ks) -> SUBSET Values] :
                            \A i \in 1..Len(ks) : f[i] \in ProbeSelections(ks[i]) } }
            : ks \in OrderedSelections(<<"Issuer country", "Issuer", AbsentColumn>>) }

ProbeInit ==
    /\ uploaded_file = None
    /\ session_state = EmptyState
    /\ rerun_requested = FALSE
    /\ sel_options = << >>
    /\ selected_sheets = << >>
    /\ is_exclude_mode = FALSE
    /\ options = NoOptions
    /\ filters = << >>
    /\ status = "upload_prompt"
    /\ sheet_warnings = << >>
    /\ no_filter_warning = FALSE
    /\ rendered = << >>
    /\ populated = FALSE
    /\ store_file = None
    /\ request = [op |-> "Start", arg |-> None]
    /\ \E df \in ProbeTables, items \in ProbeFilters, exclude \in BOOLEAN :
          probe = [df |-> df, filters |-> items, is_exclude_mode |-> exclude,
                   filtered_df |-> df, applied |-> FALSE]

ApplyProbe ==
    /\ ~probe.applied
    /\ probe' = [probe EXCEPT
                   !.filtered_df = ApplyFilters(probe.df, probe.filters,
                                                probe.is_exclude_mode),
                   !.applied = TRUE]
    /\ UNCHANGED session_vars

ProbeNext == ApplyProbe

FilterSpec == ProbeInit /\ [][ProbeNext]_vars

----------------------------------------------------------------------------
(* Properties of the filter loop, checked under FilterSpec *)

\* the include / exclude predicate of one filter column on one row, with the
\* treatment of null cells spelled out
RowSatisfies(row, filter_col, selected_values, exclude) ==
    IF exclude
    THEN row[filter_col] = NULL \/ row[filter_col] \notin selected_values
    ELSE row[filter_col] # NULL /\ row[filter_col] \in selected_values

\* C1: a filter on one column C of the table with a non-empty selected-value
\* set V yields exactly the rows, in their original order, whose C is in V
\* (include mode; null cells dropped) or whose C is not in V (exclude mode;
\* null cells kept).
C1_SingleColumnFilter ==
    (/\ probe.applied
     /\ Len(probe.filters) = 1
     /\ probe.filters[1].key \in probe.df.columns
     /\ probe.filters[1].value # {})
    => LET Keep(row) == RowSatisfies(row, probe.filters[1].key, probe.filters[1].value,
                                     probe.is_exclude_mode)
       IN  /\ probe.filtered_df.rows = SelectSeq(probe.df.rows, Keep)
           /\ probe.filtered_df.columns = probe.df.columns

\* exclude mode kept a null row and dropped a selected one
C1_Witness ==
    /\ probe.applied
    /\ Len(probe.filters) = 1
    /\ probe.filters[1].key \in probe.df.columns
    /\ probe.filters[1].value # {}
    /\ probe.is_exclude_mode
    /\ Len(probe.df.rows) = 2
    /\ probe.df.rows[1][probe.filters[1].key] \in probe.filters[1].value
    /\ probe.df.rows[2][probe.filters[1].key] = NULL
    /\ probe.filtered_df.rows = << probe.df.rows[2] >>

\* C6: when every selected-value set of the filter spec is empty, the filtered
\* view is the table itself, in include mode and in exclude mode.
C6_EmptySelectionIsIdentity ==
    (/\ probe.applied
     /\ \A i \in 1..Len(probe.filters) : probe.filters[i].value = {})
    => probe.filtered_df = probe.df

\* include mode, two filter columns of the table with nothing selected, rows kept
C6_Witness ==
    /\ probe.applied
    /\ ~probe.is_exclude_mode
    /\ Len(probe.filters) >= 2
    /\ \A i \in 1..Len(probe.filters) :
          probe.filters[i].value = {} /\ probe.filters[i].key \in probe.df.columns
    /\ Len(probe.df.rows) = 2
    /\ probe.filtered_df = probe.df

\* the items of a dict in every order
Reorderings(items) ==
    { [i \in 1..Len(items) |-> items[p[i]]] :
        p \in { q \in [1..Len(items) -> 1..Len(items)] :
                  \A i, j \in 1..Len(items) : q[i] = q[j] => i = j } }

\* C7: a row is in the filtered view iff it satisfies, under the one global
\* mode, the predicate of every filter column that has a non-empty
\* selected-value set and is a column of the table; the view is the same for
\* every order in which the columns are applied.
C7_ConjunctiveAnyOrder ==
    probe.applied
    => LET Survives(row) ==
               \A i \in 1..Len(probe.filters) :
                  (probe.filters[i].value # {} /\ probe.filters[i].key \in probe.df.columns)
                  => RowSatisfies(row, probe.filters[i].key, probe.filters[i].value,
                                  probe.is_exclude_mode)
       IN  /\ probe.filtered_df.rows = SelectSeq(probe.df.rows, Survives)
           /\ \A items \in Reorderings(probe.filters) :
                 ApplyFilters(probe.df, items, probe.is_exclude_mode) = probe.filtered_df

\* three filter columns selected, one of them absent from the table; the second
\* row passes the first column's predicate and is dropped by the second's
C7_Witness ==
    /\ probe.applied
    /\ Len(probe.filters) = 3
    /\ \A i \in 1..3 : probe.filters[i].value # {}
    /\ probe.filters[1].key \in probe.df.columns
    /\ probe.filters[2].key \in probe.df.columns
    /\ Len(probe.df.rows) = 2
    /\ probe.filtered_df.rows = << probe.df.rows[1] >>
    /\ RowSatisfies(probe.df.rows[2], probe.filters[1].key, probe.filters[1].value,
                    probe.is_exclude_mode)
    /\ ~RowSatisfies(probe.df.rows[2], probe.filters[2].key, probe.filters[2].value,
                     probe.is_exclude_mode)

----------------------------------------------------------------------------
(* Properties of the session, checked under Spec *)

PresentSheets(file) == SelectSeq(expected_sheets, LAMBDA sheet : sheet \in sheet_names(file))

MissingSheets(file) == SelectSeq(expected_sheets, LAMBDA sheet : sheet \notin sheet_names(file))

RenderedNames == [i \in 1..Len(rendered) |-> rendered[i].sheet_name]

\* C2: every newly uploaded (readable) file is loaded into the store by the
\* run its upload triggers, and a run caused by a change of the sheet
\* selection, of a filter or of the mode never loads.
C2_PopulatedOncePerUpload ==
    /\ (request.op = "Upload" /\ ExcelFileOpens(uploaded_file))
          => (populated /\ store_file = uploaded_file)
    /\ request.op \in {"SelectSheets", "SetFilter", "SetFilterMode"} => ~populated

\* C10: the store is never left populated by a load that did not complete:
\* whenever 'dataframes' is in the session state it holds every expected sheet
\* of the workbook it was read from.
C10_LoadAllOrNothing ==
    HasDataframes(session_state)
    => Keys(session_state.dataframes) = PresentSheets(store_file)

\* C3: Reset All leaves no store behind, and the next run that has an uploaded
\* file reads that file again: when the workbook opens, the store is the
\* product of the population block run on it in that run.
C3_ResetClearsAndReloads ==
    [][ /\ request'.op = "ResetAll" => ~HasDataframes(session_state')
        /\ (/\ ~HasDataframes(session_state)
            /\ request'.op # "ResetAll"
            /\ uploaded_file' # None)
           => IF ExcelFileOpens(uploaded_file')
              THEN /\ populated'
                   /\ store_file' = uploaded_file'
                   /\ HasDataframes(session_state')
                   /\ session_state'.dataframes = PopulateStore(uploaded_file').dataframes
              ELSE ~HasDataframes(session_state') ]_vars

\* the run after a reset has read the uploaded workbook again and displays it
C3_Witness ==
    /\ request.op = "Rerun"
    /\ populated
    /\ store_file = uploaded_file
    /\ status = "displayed"

\* C4: a load that runs to its end stores exactly the expected sheets the
\* workbook has, warns once for each expected sheet it lacks, and goes on past
\* a missing sheet; with no expected sheet the run ends in the "no valid
\* sheets" error and offers neither sheet selection nor filters.
C4_LoadReportsMissingSheets ==
    (populated /\ status # "read_error")
    => /\ Keys(session_state.dataframes) = PresentSheets(uploaded_file)
       /\ \A sheet \in Range(PresentSheets(uploaded_file)) :
             Get(session_state.dataframes, sheet) = read_excel(uploaded_file, sheet)
       /\ sheet_warnings = MissingSheets(uploaded_file)
       /\ IF PresentSheets(uploaded_file) = << >>
          THEN /\ status = "no_valid_sheets"
               /\ sel_options = << >>
               /\ options = NoOptions
               /\ rendered = << >>
          ELSE status \in {"displayed", "select_prompt"}

\* a workbook lacking the first two expected sheets: they are warned about and
\* the sheets after them are loaded
C4_Witness ==
    /\ populated
    /\ status = "displayed"
    /\ Len(sheet_warnings) = 6
    /\ sheet_warnings[1] = expected_sheets[1]
    /\ Keys(session_state.dataframes) = << expected_sheets[3], expected_sheets[4] >>

\* the selections with the sheets of `selected`, reordered and with up to
\* MaxDup repeated entries
Variations(selected) ==
    { s \in BoundedSeq(Range(selected), Len(selected) + MaxDup) :
        Range(s) = Range(selected) }

\* the distinct non-null values of column col over the selected sheets having it
ValueUnion(dataframes, selected, col) ==
    UNION { { row[col] : row \in Range(Get(dataframes, sheet).rows) } \ {NULL} :
              sheet \in { sh \in Range(selected) : col \in Get(dataframes, sh).columns } }

\* C5: the options offered for a filter column are the ascending union of the
\* selected sheets' distinct non-null values in it, whatever the order or
\* repetition of the sheets, and the column is offered iff that union is not
\* empty.
C5_OptionsAreSortedUnion ==
    status = "displayed"
    => \A col \in Range(filter_columns) :
          LET dataframes == session_state.dataframes
              U == ValueUnion(dataframes, selected_sheets, col)
          IN  /\ Range(options[col]) = U
              /\ \A i, j \in 1..Len(options[col]) : i < j => options[col][i] < options[col][j]
              /\ col \in Range(Keys(filters)) <=> U # {}
              /\ \A s \in Variations(selected_sheets) :
                    BuildFilters(dataframes, s, Widgets, 1,
                                 [options |-> NoOptions, filters |-> << >>]).options[col]
                    = options[col]

\* two sheets selected, each contributing a value the other lacks
C5_Witness ==
    /\ status = "displayed"
    /\ selected_sheets = << "Issuer", "Region" >>
    /\ options["Issuer region name"] = << 1, 2, 3 >>
    /\ options["Issuer"] = << 1 >>
    /\ options["Merchant"] = << >>

\* C8: the sheets displayed (and offered for download) are the selected sheets
\* in the order the user chose them, and each is a key of the store.
C8_RenderedInSelectedOrder ==
    ~rerun_requested
    => /\ RenderedNames = selected_sheets
       /\ request.op = "SelectSheets" => RenderedNames = request.arg
       /\ \A i \in 1..Len(rendered) :
             /\ HasDataframes(session_state)
             /\ rendered[i].sheet_name \in Range(Keys(session_state.dataframes))

\* the user chose two sheets against the store's order
C8_Witness ==
    /\ request.op = "SelectSheets"
    /\ status = "displayed"
    /\ Len(rendered) = 2
    /\ RenderedNames = << sel_options[2], sel_options[1] >>

NoFilterColumnPresent ==
    \A i \in 1..Len(selected_sheets) :
       Get(session_state.dataframes, selected_sheets[i]).columns
          \cap Range(filter_columns) = {}

\* C9 as stated: with sheets displayed, the warning that lists the expected
\* filter columns is shown exactly when no filter widget is offered.
C9_WarningIffNoWidget ==
    status = "displayed" => (no_filter_warning <=> options = NoOptions)

\* C9, amended: the warning is shown exactly when none of the six filter
\* columns is a column of a selected sheet; then no filter widget is offered
\* and every selected sheet is displayed unfiltered.
C9_WarningIffNoFilterColumn ==
    status = "displayed"
    => /\ no_filter_warning <=> NoFilterColumnPresent
       /\ no_filter_warning
             => /\ options = NoOptions
                /\ RenderedNames = selected_sheets
                /\ \A i \in 1..Len(rendered) : rendered[i].filtered_df = rendered[i].df

\* a sheet without any filter column is displayed, whole, under the warning
C9_Witness ==
    /\ status = "displayed"
    /\ no_filter_warning
    /\ Len(rendered) = 1
    /\ Len(rendered[1].filtered_df.rows) = 2

====
